---------------------------- MODULE Spec2Model ----------------------------
(***************************************************************************)
(* A model of parts of the Polar web client:                               *)
(*                                                                         *)
(*  - DiffStat (polarkit/components/Issue/Reference.tsx): the five-box     *)
(*    diff visualisation of a pull request's additions and deletions.      *)
(*    The box counts are computed in JavaScript numbers, i.e. IEEE-754     *)
(*    binary64, so the two divisions are modelled bit-exactly.             *)
(*  - The markdown override renderer (Feed/Posts/EmailRender.tsx and its   *)
(*    browser sibling): a body of blocks rendered through a per-context    *)
(*    override table and the strict createElement wrapper.                 *)
(*  - IssueReference (Reference.tsx): the renderers of a commit, a pull    *)
(*    request and an external pull request reference.                      *)
(*  - The article queries and mutations (Reference.tsx): which cached      *)
(*    queries a mutation invalidates.                                      *)
(*  - SubscriptionSuccess: the email sign-in handler.                      *)
(*  - LongformPost: the memoised publication text.                         *)
(*  - PaymentMethodSettings: the customer-portal button and the 'Saved!'   *)
(*    indicator of the billing email form.                                 *)
(*                                                                         *)
(* The parts do not interact; each has its own specification (SpecDiffStat,*)
(* SpecRender, SpecReference, SpecArticles, SpecSignin, SpecLongform,      *)
(* SpecPayment) over its own variables, the variables of the other parts   *)
(* staying idle.                                                           *)
(***************************************************************************)
EXTENDS Integers, Sequences, FiniteSets

VARIABLES
    propsAdditions,   \* DiffStat props.additions: <<>> (undefined) or <<n>>
    propsDeletions,   \* DiffStat props.deletions: <<>> (undefined) or <<n>>
    additionBoxes,    \* DiffStat local
    deletionBoxes,    \* DiffStat local
    emptyBoxes,       \* DiffStat local
    marks,            \* the box marks emitted so far, in document order
    dsPc,             \* position inside one DiffStat render
    component,        \* the rendering entry point: "EmailRender" | "LongformPost"
    propShow,         \* LongformPost's showPaywalledContent prop: <<>> or <<b>>
    body,             \* article.body, as its sequence of blocks
    strictShow,       \* showPaywalledContent as wrapStrictCreateElement got it
    cutoff,           \* position of the paywall boundary in force, 0 for none
    pos,              \* the next block createElement is called for
    output,           \* the rendered nodes, in document order
    rPc,              \* position inside one markdown render
    refOrgName,       \* IssueReference props.orgName
    reference,        \* IssueReference props.reference: <<>> or <<[type, payload]>>
    refView,          \* the elements IssueReference rendered, in document order
    refPc,            \* position inside one IssueReference render
    artStale,         \* the cached article queries marked stale (invalidated)
    artMutation,      \* the article mutation last started, with its status
    artCount,         \* number of article mutations started
    email,            \* subscribeSession.customer_email: <<>> or <<address>>
    emailSigninLoading, \* SubscriptionSuccess state
    sgnRequests,      \* magic-link requests sent to the api so far
    sgnPushes,        \* the routes pushed to the router, in order
    sgnHandlers,      \* one entry per onEmailSignin call: where it stands
    publishedAt,      \* article.published_at: <<>> or <<time>>
    now,              \* the clock new Date() reads
    publishedDateText, \* LongformPost's memoised text, <<>> before the mount
    lfRenders,        \* number of LongformPost renders so far
    stripePortalLoading, \* PaymentMethodSettings state
    portalHandlers,   \* one entry per onGotoStripeCustomerPortal call: where it stands
    locationHref,     \* window.location.href
    showDidSave,      \* PaymentMethodSettings state
    saves,            \* one entry per onSubmit call: where it stands
    saveTimers        \* the pending hide timers, by the call that set them, in order

dsVars == <<propsAdditions, propsDeletions, additionBoxes, deletionBoxes,
            emptyBoxes, marks, dsPc>>

rVars == <<component, propShow, body, strictShow, cutoff, pos, output, rPc>>

refVars == <<refOrgName, reference, refView, refPc>>

artVars == <<artStale, artMutation, artCount>>

sgnVars == <<email, emailSigninLoading, sgnRequests, sgnPushes, sgnHandlers>>

lfVars == <<publishedAt, now, publishedDateText, lfRenders>>

payVars == <<stripePortalLoading, portalHandlers, locationHref, showDidSave,
             saves, saveTimers>>

vars == <<dsVars, rVars, refVars, artVars, sgnVars, lfVars, payVars>>

(***************************************************************************)
(* Bounds of the model.                                                    *)
(***************************************************************************)
\* additions and deletions range over 0..MaxCount (and the spec's examples)
MaxCount == 6

\* the counts of the 39% / 40% / 100% examples, added to 0..MaxCount
ExampleCounts == {39, 40, 60, 61, 100}

Counts == (0 .. MaxCount) \cup ExampleCounts

\* an article body holds at most MaxBody blocks
MaxBody == 3

\* number | undefined, boolean | undefined
Undefined == <<>>

Props == {Undefined} \cup {<<n>> : n \in Counts}

(***************************************************************************)
(* IEEE-754 binary64 arithmetic, as far as DiffStat uses it: the division  *)
(* of non-negative finite numbers and Math.floor.  A positive double is    *)
(* m * 2^e with a 53-bit significand m, kept in two 27-bit limbs so that   *)
(* every intermediate value fits a 32-bit integer.                         *)
(***************************************************************************)
Limb == 2^27

\* the significand's hi limb of a normalised double lies in [HiMin, 2*HiMin)
HiMin == 2^25

BigZero == [hi |-> 0, lo |-> 0]

BigGeq(x, y) == x.hi > y.hi \/ (x.hi = y.hi /\ x.lo >= y.lo)

BigSub(x, y) ==
    IF x.lo >= y.lo
    THEN [hi |-> x.hi - y.hi, lo |-> x.lo - y.lo]
    ELSE [hi |-> x.hi - y.hi - 1, lo |-> x.lo + Limb - y.lo]

BigDbl(x) == [hi |-> 2 * x.hi + (2 * x.lo) \div Limb, lo |-> (2 * x.lo) % Limb]

BigHalf(x) == [hi |-> x.hi \div 2, lo |-> (x.hi % 2) * (Limb \div 2) + x.lo \div 2]

BigInc(x) ==
    IF x.lo + 1 = Limb THEN [hi |-> x.hi + 1, lo |-> 0]
    ELSE [hi |-> x.hi, lo |-> x.lo + 1]

BigOdd(x) == x.lo % 2 = 1

DZero == [m |-> BigZero, e |-> 0]

IsZero(x) == x.m = BigZero

RECURSIVE Normalise(_)
\* shift the significand left until it has 53 bits
Normalise(x) ==
    IF x.m.hi >= HiMin THEN x
    ELSE Normalise([m |-> BigDbl(x.m), e |-> x.e - 1])

\* the double of a non-negative integer below 2^27 (exact)
ToDouble(n) ==
    IF n = 0 THEN DZero ELSE Normalise([m |-> [hi |-> 0, lo |-> n], e |-> 0])

\* one step of binary long division: the next quotient bit and the doubled
\* remainder
DivStep(st, d) ==
    IF BigGeq(st.rem, d)
    THEN [q |-> BigInc(BigDbl(st.q)), rem |-> BigDbl(BigSub(st.rem, d))]
    ELSE [q |-> BigDbl(st.q), rem |-> BigDbl(st.rem)]

RECURSIVE LongDiv(_, _, _)
\* n steps of binary long division from state st
LongDiv(st, d, n) ==
    IF n = 0 \/ st.q.hi >= Limb  \* the quotient never outgrows its limbs
    THEN st ELSE LongDiv(DivStep(st, d), d, n - 1)

\* a 54-bit quotient (53 bits and a guard bit) and whether a remainder is
\* left, rounded to 53 bits: round to nearest, ties to even: the default rounding of binary64
RoundNearestEven(q, sticky) ==
    LET r == BigHalf(q)
    IN IF BigOdd(q) /\ (sticky \/ BigOdd(r)) THEN BigInc(r) ELSE r

\* x / y for y > 0
FDiv(x, y) ==
    IF IsZero(x) THEN DZero
    ELSE LET big   == BigGeq(x.m, y.m)
             steps == IF big THEN 54 ELSE 55
             d     == LongDiv([q |-> BigZero, rem |-> x.m], y.m, steps)
             r     == RoundNearestEven(d.q, d.rem # BigZero)
             e     == x.e - y.e - (IF big THEN 52 ELSE 53)
         IN IF r.hi >= 2 * HiMin
            THEN [m |-> BigHalf(r), e |-> e + 1]
            ELSE [m |-> r, e |-> e]

RECURSIVE BigShr(_, _)
BigShr(x, n) == IF n = 0 \/ x = BigZero THEN x ELSE BigShr(BigHalf(x), n - 1)

\* Math.floor of a non-negative double below 2^27, as an integer
Floor(x) ==
    IF x.e >= 0 THEN x.m.lo
    ELSE LET s == BigShr(x.m, 0 - x.e) IN s.hi * Limb + s.lo

(***************************************************************************)
(* DiffStat                                                                *)
(***************************************************************************)
boxCount == 5

threshold == FDiv(ToDouble(1), ToDouble(boxCount))

\* props.additions || 0: undefined (and 0) become 0
OrZero(p) == IF p = Undefined THEN 0 ELSE p[1]

\* DefaultAllocation with a fault: every counter starts at 0
DefaultAllocationAllZero ==
    [additionBoxes |-> 0, deletionBoxes |-> 0, emptyBoxes |-> 0]

\* "Default to all empty, e.g opened branch/PR with no changes"
DefaultAllocation ==
    [additionBoxes |-> 0, deletionBoxes |-> 0, emptyBoxes |-> boxCount]

\* BoxesOf with a fault: the division by the threshold is left out
BoxesOfNoThreshold(count, total) ==
    Floor(FDiv(ToDouble(count), ToDouble(total)))

\* Math.floor(count / total / threshold)
BoxesOf(count, total) ==
    Floor(FDiv(FDiv(ToDouble(count), ToDouble(total)), threshold))

\* Allocation with a fault: emptyBoxes is not recomputed for a non-empty change
AllocationStaleEmpty(pa, pd) ==
    LET additions == OrZero(pa)
        deletions == OrZero(pd)
        total     == additions + deletions
    IN IF total > 0
       THEN [additionBoxes |-> BoxesOf(additions, total),
             deletionBoxes |-> BoxesOf(deletions, total),
             emptyBoxes    |-> DefaultAllocation.emptyBoxes]
       ELSE DefaultAllocation

\* Allocation with a fault: the two sides are mixed up (additionBoxes is
\* computed from deletions and deletionBoxes from additions)
AllocationSwapped(pa, pd) ==
    LET additions == OrZero(pa)
        deletions == OrZero(pd)
        total     == additions + deletions
    IN IF total > 0
       THEN LET ab == BoxesOf(deletions, total)
                db == BoxesOf(additions, total)
            IN [additionBoxes |-> ab,
                deletionBoxes |-> db,
                emptyBoxes    |-> boxCount - ab - db]
       ELSE DefaultAllocation

\* the box counts DiffStat computes from its props
Allocation(pa, pd) ==
    LET additions == OrZero(pa)
        deletions == OrZero(pd)
        total     == additions + deletions
    IN IF total > 0
       THEN LET ab == BoxesOf(additions, total)
                db == BoxesOf(deletions, total)
            IN [additionBoxes |-> ab,
                deletionBoxes |-> db,
                emptyBoxes    |-> boxCount - ab - db]
       ELSE DefaultAllocation

RECURSIVE Repeat(_, _)
Repeat(x, n) == IF n <= 0 THEN <<>> ELSE <<x>> \o Repeat(x, n - 1)

\* generateDiffBox with a fault: one box too many ([...Array(boxes + 1)])
generateDiffBoxOneMore(className, boxes) ==
    IF boxes <= 0 THEN <<>> ELSE Repeat(className, boxes + 1)

\* generateDiffBox: nothing for boxes <= 0, else one span per box
generateDiffBox(className, boxes) ==
    IF boxes <= 0 THEN <<>> ELSE Repeat(className, boxes)

DiffStatInit ==
    /\ propsAdditions \in Props
    /\ propsDeletions \in Props
    /\ additionBoxes = 0
    /\ deletionBoxes = 0
    /\ emptyBoxes = 0
    /\ marks = <<>>
    /\ dsPc = "compute"
    \* no markdown render is under way
    /\ component = "none"
    /\ propShow = Undefined
    /\ body = <<>>
    /\ strictShow = FALSE
    /\ cutoff = 0
    /\ pos = 1
    /\ output = <<>>
    /\ rPc = "idle"
    \* no issue reference is being rendered
    /\ refOrgName = "polar"
    /\ reference = <<>>
    /\ refView = <<>>
    /\ refPc = "idle"
    \* no article mutation has been started
    /\ artStale = {}
    /\ artMutation = [status |-> "idle", kind |-> "none", org |-> "none", id |-> "none"]
    /\ artCount = 0
    \* the subscription success page is not shown
    /\ email = <<>>
    /\ emailSigninLoading = FALSE
    /\ sgnRequests = 0
    /\ sgnPushes = <<>>
    /\ sgnHandlers = <<>>
    \* no post is mounted
    /\ publishedAt = <<>>
    /\ now = 0
    /\ publishedDateText = <<>>
    /\ lfRenders = 0
    \* the team settings page is not shown
    /\ stripePortalLoading = FALSE
    /\ portalHandlers = <<>>
    /\ locationHref = "/settings"
    /\ showDidSave = FALSE
    /\ saves = <<>>
    /\ saveTimers = <<>>

\* lines 283-297: the allocation
DiffStatCompute ==
    /\ dsPc = "compute"
    /\ LET a == Allocation(propsAdditions, propsDeletions)
       IN /\ additionBoxes' = a.additionBoxes
          /\ deletionBoxes' = a.deletionBoxes
          /\ emptyBoxes' = a.emptyBoxes
    /\ dsPc' = "green"
    /\ UNCHANGED <<propsAdditions, propsDeletions, marks>>
    /\ UNCHANGED <<rVars, refVars, artVars, sgnVars, lfVars, payVars>>

\* line 323
DiffStatGreen ==
    /\ dsPc = "green"
    /\ marks' = marks \o generateDiffBox("green", additionBoxes)
    /\ dsPc' = "red"
    /\ UNCHANGED <<propsAdditions, propsDeletions, additionBoxes,
                   deletionBoxes, emptyBoxes>>
    /\ UNCHANGED <<rVars, refVars, artVars, sgnVars, lfVars, payVars>>

\* line 324
DiffStatRed ==
    /\ dsPc = "red"
    /\ marks' = marks \o generateDiffBox("red", deletionBoxes)
    /\ dsPc' = "gray"
    /\ UNCHANGED <<propsAdditions, propsDeletions, additionBoxes,
                   deletionBoxes, emptyBoxes>>
    /\ UNCHANGED <<rVars, refVars, artVars, sgnVars, lfVars, payVars>>

\* line 325
DiffStatGray ==
    /\ dsPc = "gray"
    /\ marks' = marks \o generateDiffBox("gray", emptyBoxes)
    /\ dsPc' = "done"
    /\ UNCHANGED <<propsAdditions, propsDeletions, additionBoxes,
                   deletionBoxes, emptyBoxes>>
    /\ UNCHANGED <<rVars, refVars, artVars, sgnVars, lfVars, payVars>>

DiffStatNext ==
    \/ DiffStatCompute
    \/ DiffStatGreen
    \/ DiffStatRed
    \/ DiffStatGray

SpecDiffStat == DiffStatInit /\ [][DiffStatNext]_vars

(***************************************************************************)
(* DiffStat: properties                                                    *)
(***************************************************************************)
additions == OrZero(propsAdditions)

deletions == OrZero(propsDeletions)

total == additions + deletions

Allocated == dsPc # "compute"

CountOf(className) == Cardinality({i \in DOMAIN marks : marks[i] = className})

Rank(className) ==
    CASE className = "green" -> 1
      [] className = "red"   -> 2
      [] OTHER               -> 3

\* C1: for every pair of non-negative (or absent) inputs the three box
\* counts DiffStat computes are each >= 0 and sum to exactly 5.
C1_BoxesSumToFive ==
    Allocated =>
        /\ additionBoxes >= 0
        /\ deletionBoxes >= 0
        /\ emptyBoxes >= 0
        /\ additionBoxes + deletionBoxes + emptyBoxes = 5

\* C1 witness: an allocation of a mixed change with all three kinds of box.
C1_Witness ==
    /\ dsPc = "done"
    /\ additions > 0 /\ deletions > 0
    /\ additionBoxes > 0 /\ deletionBoxes > 0 /\ emptyBoxes > 0

\* C2 (as claimed): for total > 0, additionBoxes is the largest k with
\* k * total <= 5 * additions, and deletionBoxes the same for deletions.
C2_FullTwentyPercentSteps ==
    (Allocated /\ total > 0) =>
        /\ additionBoxes = (5 * additions) \div total
        /\ deletionBoxes = (5 * deletions) \div total

\* C3 (as claimed): for total > 0 the fifth box is gray (emptyBoxes >= 1)
\* unless one side is the whole change.
C3_LastBoxGrayUnlessPerfect ==
    (Allocated /\ total > 0 /\ additions # total /\ deletions # total) =>
        emptyBoxes >= 1

\* C4: when additions + deletions = 0, absent inputs counting as 0, the
\* allocation is 0 addition boxes, 0 deletion boxes and 5 empty boxes.
C4_EmptyChangeAllGray ==
    (Allocated /\ total = 0) =>
        /\ additionBoxes = 0
        /\ deletionBoxes = 0
        /\ emptyBoxes = 5

\* C4 witness: an allocation with one input absent and the other 0.
C4_Witness ==
    /\ dsPc = "done"
    /\ propsAdditions = Undefined
    /\ propsDeletions = <<0>>
    /\ emptyBoxes = 5

\* C5: a side that is 100% of a non-empty change claims all five boxes:
\* (5, 0, 0) for additions only, (0, 5, 0) for deletions only.
C5_PerfectSideClaimsAll ==
    /\ (Allocated /\ additions > 0 /\ deletions = 0) =>
           (additionBoxes = 5 /\ deletionBoxes = 0 /\ emptyBoxes = 0)
    /\ (Allocated /\ deletions > 0 /\ additions = 0) =>
           (additionBoxes = 0 /\ deletionBoxes = 5 /\ emptyBoxes = 0)

\* C5 witness: the spec's example, 100 additions and no deletions.
C5_Witness ==
    /\ dsPc = "done"
    /\ propsAdditions = <<100>>
    /\ propsDeletions = Undefined
    /\ additionBoxes = 5

\* C6: the marks are emitted green first, then red, then gray (no mark is
\* preceded by one of a later colour), and a finished render holds exactly
\* additionBoxes green, deletionBoxes red and emptyBoxes gray marks, 5 in all.
C6_MarksInFixedOrder ==
    /\ \A i, j \in DOMAIN marks : i < j => Rank(marks[i]) <= Rank(marks[j])
    /\ dsPc = "done" =>
           /\ CountOf("green") = additionBoxes
           /\ CountOf("red") = deletionBoxes
           /\ CountOf("gray") = emptyBoxes
           /\ Len(marks) = 5

\* C6 witness: a finished render showing all three colours.
C6_Witness ==
    /\ dsPc = "done"
    /\ marks = <<"green", "green", "red", "red", "gray">>

(***************************************************************************)
(* The markdown override renderer                                          *)
(*                                                                         *)
(* A body is a sequence of blocks.  The Markdown component resolves each   *)
(* block's tag in the override table and calls createElement for it; the  *)
(* renderers hand it the wrapper made by wrapStrictCreateElement.          *)
(* EmailRender.tsx and LongformPost.tsx are modelled from their source;    *)
(* ./markdown, ./BrowserRender, ./Poll and ./Paywall are modelled from the *)
(* specification.                                                          *)
(***************************************************************************)
\* a block: its tag, and for a pre block its child's element type and the
\* child's className, a string kept as its sequence of tokens (<<>> when the
\* child has none); for a poll its options
Block(tag, child, className, options) ==
    [tag |-> tag, child |-> child, className |-> className, options |-> options]

Blocks ==
    { Block("p", "none", Undefined, <<>>),
      Block("poll", "none", Undefined, <<"yes", "no">>),
      Block("paywall", "none", Undefined, <<>>),
      Block("SubscribeNow", "none", Undefined, <<>>),
      Block("embed", "none", Undefined, <<>>),
      Block("iframe", "none", Undefined, <<>>),
      Block("pre", "code", << <<"lang-", "mermaid">> >>, <<>>),
      Block("pre", "code", << <<"lang-", "js">> >>, <<>>),
      Block("pre", "code", Undefined, <<>>),
      Block("pre", "img", Undefined, <<>>),
      Block("blink", "none", Undefined, <<>>) }

Bodies == UNION {[1 .. n -> Blocks] : n \in 0 .. MaxBody}

\* a rendered node: what it is, whether it carries interactive controls,
\* the position of the block it renders, and its rows (a poll's tally)
Node(kind, interactive, src, rows) ==
    [kind |-> kind, interactive |-> interactive, src |-> src, rows |-> rows]

\* <></>
Nothing == <<>>

\* boolean | undefined, as a condition
Truthy(p) == p = <<TRUE>>

\* EmailPoll with a fault: the tally rows carry vote buttons
EmailPollWithVoteButtons(options, src) ==
    <<Node("EmailPoll", TRUE, src, [i \in DOMAIN options |-> <<options[i], "vote">>])>>

\* EmailPoll: a table with one static row per option
EmailPoll(options, src) ==
    <<Node("EmailPoll", FALSE, src,
           [i \in DOMAIN options |-> <<options[i], "123 votes (10%)">>])>>

\* the browser poll renderer: one vote-casting control per option
BrowserPoll(options, src) ==
    <<Node("BrowserPoll", TRUE, src, [i \in DOMAIN options |-> <<options[i], "vote">>])>>

\* ./Poll: hands the block's options to the renderer it was given
Poll(block, renderer, src) ==
    IF renderer = "EmailPoll" THEN EmailPoll(block.options, src)
    ELSE BrowserPoll(block.options, src)

\* ./Paywall: the prompt when paywalled content is not shown, else nothing
\* of its own
Paywall(block, src, show) ==
    IF show THEN Nothing ELSE <<Node("PaywallPlaceholder", FALSE, src, <<>>)>>

\* the email table's entries, EmailRender.tsx lines 22-41
emailPollOverride(block, src, show) == Poll(block, "EmailPoll", src)

\* emailPaywall with a fault: the entry renders nothing
emailPaywallRendersNothing(block, src, show) == Nothing

emailPaywall(block, src, show) == Paywall(block, src, show)

\* emailSubscribeNow with a fault: the call-to-action is rendered
emailSubscribeNowShown(block, src, show) ==
    <<Node("SubscribeNow", TRUE, src, <<>>)>>

\* SubscribeNow: () => <></>, "do not render"
emailSubscribeNow(block, src, show) == Nothing

emailEmbed(block, src, show) == <<Node("EmailEmbed", FALSE, src, <<>>)>>

emailIframe(block, src, show) == <<Node("EmailIframe", FALSE, src, <<>>)>>

RECURSIVE ReplaceFirst(_, _)
\* String.prototype.replace(tok, ''): the string without the first tok in it
ReplaceFirst(str, tok) ==
    IF str = <<>> THEN <<>>
    ELSE IF Head(str) = tok THEN Tail(str)
    ELSE <<Head(str)>> \o ReplaceFirst(Tail(str), tok)

\* className?.replace('lang-', ''): undefined for no className
Language(className) ==
    IF className = Undefined THEN Undefined
    ELSE <<ReplaceFirst(className[1], "lang-")>>

\* emailPre with a fault: the className is compared as it is, 'lang-' and all
emailPreUnstripped(block, src, show) ==
    IF block.child = "code"
    THEN IF block.className = << <<"mermaid">> >>
         THEN <<Node("EmailMermaid", FALSE, src, <<>>)>>
         ELSE <<Node("EmailSyntaxHighlighter", FALSE, src, block.className)>>
    ELSE Nothing

\* pre: the static diagram for mermaid code, the email syntax highlighter
\* for other code, nothing for a child that is not code
emailPre(block, src, show) ==
    IF block.child = "code"
    THEN LET language == Language(block.className)
         IN IF language = << <<"mermaid">> >>
            THEN <<Node("EmailMermaid", FALSE, src, <<>>)>>
            ELSE <<Node("EmailSyntaxHighlighter", FALSE, src, language)>>
    ELSE Nothing

\* the browser table's entries
browserPollOverride(block, src, show) == Poll(block, "BrowserPoll", src)

browserPaywall(block, src, show) == Paywall(block, src, show)

browserSubscribeNow(block, src, show) ==
    <<Node("SubscribeNow", TRUE, src, <<>>)>>

browserEmbed(block, src, show) == <<Node("BrowserEmbed", TRUE, src, <<>>)>>

browserIframe(block, src, show) == <<Node("BrowserIframe", TRUE, src, <<>>)>>

browserPre(block, src, show) ==
    IF block.child = "code"
    THEN IF Language(block.className) = << <<"mermaid">> >>
         THEN <<Node("BrowserMermaid", TRUE, src, <<>>)>>
         ELSE <<Node("BrowserSyntaxHighlighter", FALSE, src, <<>>)>>
    ELSE Nothing

basePre(block, src, show) == Nothing

\* Spread with a fault: the spreads are written in the other order, so the
\* first table's entries win
SpreadFirstWins(a, b) ==
    [t \in DOMAIN a \cup DOMAIN b |-> IF t \in DOMAIN a THEN a[t] ELSE b[t]]

\* { ...a, ...b }: b's entries win
Spread(a, b) ==
    [t \in DOMAIN a \cup DOMAIN b |-> IF t \in DOMAIN b THEN b[t] ELSE a[t]]

\* markdownOpts.overrides, the table both contexts start from
markdownOptsOverrides == [pre |-> "basePre"]

\* the entries EmailRender.tsx adds ("email overrides")
emailOverrides ==
    [poll         |-> "emailPollOverride",
     paywall      |-> "emailPaywall",
     SubscribeNow |-> "emailSubscribeNow",
     embed        |-> "emailEmbed",
     iframe       |-> "emailIframe",
     pre          |-> "emailPre"]

\* opts.overrides of EmailRender.tsx
opts == Spread(markdownOptsOverrides, emailOverrides)

\* the entries BrowserRender adds
browserOverrides ==
    [poll         |-> "browserPollOverride",
     paywall      |-> "browserPaywall",
     SubscribeNow |-> "browserSubscribeNow",
     embed        |-> "browserEmbed",
     iframe       |-> "browserIframe",
     pre          |-> "browserPre"]

\* the override table of BrowserRender
browserOpts == Spread(markdownOptsOverrides, browserOverrides)

\* the render function an entry of a table names, applied to a block
Invoke(entry, block, src, show) ==
    CASE entry = "emailPollOverride"   -> emailPollOverride(block, src, show)
      [] entry = "emailPaywall"        -> emailPaywall(block, src, show)
      [] entry = "emailSubscribeNow"   -> emailSubscribeNow(block, src, show)
      [] entry = "emailEmbed"          -> emailEmbed(block, src, show)
      [] entry = "emailIframe"         -> emailIframe(block, src, show)
      [] entry = "emailPre"            -> emailPre(block, src, show)
      [] entry = "browserPollOverride" -> browserPollOverride(block, src, show)
      [] entry = "browserPaywall"      -> browserPaywall(block, src, show)
      [] entry = "browserSubscribeNow" -> browserSubscribeNow(block, src, show)
      [] entry = "browserEmbed"        -> browserEmbed(block, src, show)
      [] entry = "browserIframe"       -> browserIframe(block, src, show)
      [] entry = "browserPre"          -> browserPre(block, src, show)
      [] OTHER                         -> basePre(block, src, show)

\* the tags the renderer recognises; any other tag renders as nothing
RecognizedTags ==
    {"p", "poll", "paywall", "SubscribeNow", "embed", "iframe", "pre"}

\* override resolution: the table's entry if the tag has one, else the node
\* as it is
ResolveOverride(table, block, src, show) ==
    IF block.tag \in DOMAIN table
    THEN Invoke(table[block.tag], block, src, show)
    ELSE <<Node(block.tag, FALSE, src, <<>>)>>

\* the position of the first paywall marker of a body, 0 if it has none
FirstMarker(b) ==
    IF \E i \in DOMAIN b : b[i].tag = "paywall"
    THEN CHOOSE i \in DOMAIN b :
             /\ b[i].tag = "paywall"
             /\ \A j \in DOMAIN b : b[j].tag = "paywall" => i <= j
    ELSE 0

\* the pre-pass of wrapStrictCreateElement: the boundary in force for this
\* render, decided once
PaywallCutoff(b, show) == IF show THEN 0 ELSE FirstMarker(b)

\* LongformPostPassesFlag with a fault: the prop is not passed on
LongformPostDropsFlag(show) == Undefined

\* LongformPost hands its showPaywalledContent prop to BrowserRender
LongformPostPassesFlag(show) == show

\* StrictCreateElement with a fault: the tag is not checked, so an
\* unrecognised tag is created like any other element
StrictCreateElementAnyTag(table, block, src, cut, show) ==
    IF cut # 0 /\ src > cut THEN Nothing
    ELSE ResolveOverride(table, block, src, show)

\* the created element for the block at position src: nothing past the
\* boundary or for an unrecognised tag, else the resolved rendering
StrictCreateElement(table, block, src, cut, show) ==
    IF cut # 0 /\ src > cut THEN Nothing
    ELSE IF block.tag \notin RecognizedTags THEN Nothing
    ELSE ResolveOverride(table, block, src, show)

\* the override table of the render under way
ActiveTable == IF component = "EmailRender" THEN opts ELSE browserOpts

RenderInit ==
    /\ component \in {"EmailRender", "LongformPost"}
    /\ propShow \in (IF component = "EmailRender" THEN {Undefined}
                     ELSE {Undefined, <<TRUE>>, <<FALSE>>})
    /\ body \in Bodies
    /\ strictShow = FALSE
    /\ cutoff = 0
    /\ pos = 1
    /\ output = <<>>
    /\ rPc = "start"
    \* no DiffStat render is under way
    /\ propsAdditions = Undefined
    /\ propsDeletions = Undefined
    /\ additionBoxes = 0
    /\ deletionBoxes = 0
    /\ emptyBoxes = 0
    /\ marks = <<>>
    /\ dsPc = "idle"
    \* no issue reference is being rendered
    /\ refOrgName = "polar"
    /\ reference = <<>>
    /\ refView = <<>>
    /\ refPc = "idle"
    \* no article mutation has been started
    /\ artStale = {}
    /\ artMutation = [status |-> "idle", kind |-> "none", org |-> "none", id |-> "none"]
    /\ artCount = 0
    \* the subscription success page is not shown
    /\ email = <<>>
    /\ emailSigninLoading = FALSE
    /\ sgnRequests = 0
    /\ sgnPushes = <<>>
    /\ sgnHandlers = <<>>
    \* no post is mounted
    /\ publishedAt = <<>>
    /\ now = 0
    /\ publishedDateText = <<>>
    /\ lfRenders = 0
    \* the team settings page is not shown
    /\ stripePortalLoading = FALSE
    /\ portalHandlers = <<>>
    /\ locationHref = "/settings"
    /\ showDidSave = FALSE
    /\ saves = <<>>
    /\ saveTimers = <<>>

\* EmailRender: wrapStrictCreateElement({ article }), no showPaywalledContent
EmailRenderStart ==
    /\ rPc = "start"
    /\ component = "EmailRender"
    /\ strictShow' = Truthy(Undefined)
    /\ cutoff' = PaywallCutoff(body, strictShow')
    /\ rPc' = "render"
    /\ UNCHANGED <<component, propShow, body, pos, output>>
    /\ UNCHANGED <<dsVars, refVars, artVars, sgnVars, lfVars, payVars>>

\* LongformPost: <BrowserRender article showPaywalledContent />
LongformPostStart ==
    /\ rPc = "start"
    /\ component = "LongformPost"
    /\ strictShow' = Truthy(LongformPostPassesFlag(propShow))
    /\ cutoff' = PaywallCutoff(body, strictShow')
    /\ rPc' = "render"
    /\ UNCHANGED <<component, propShow, body, pos, output>>
    /\ UNCHANGED <<dsVars, refVars, artVars, sgnVars, lfVars, payVars>>

\* the Markdown component creates the element of the next block
RenderBlock ==
    /\ rPc = "render"
    /\ pos <= Len(body)
    /\ output' = output \o
                 StrictCreateElement(ActiveTable, body[pos], pos, cutoff, strictShow)
    /\ pos' = pos + 1
    /\ UNCHANGED <<component, propShow, body, strictShow, cutoff, rPc>>
    /\ UNCHANGED <<dsVars, refVars, artVars, sgnVars, lfVars, payVars>>

\* the last block is rendered: the tree is handed back
RenderDone ==
    /\ rPc = "render"
    /\ pos > Len(body)
    /\ rPc' = "done"
    /\ UNCHANGED <<component, propShow, body, strictShow, cutoff, pos, output>>
    /\ UNCHANGED <<dsVars, refVars, artVars, sgnVars, lfVars, payVars>>

RenderNext ==
    \/ EmailRenderStart
    \/ LongformPostStart
    \/ RenderBlock
    \/ RenderDone

SpecRender == RenderInit /\ [][RenderNext]_vars

(***************************************************************************)
(* The markdown override renderer: properties                              *)
(***************************************************************************)
Placeholders == {k \in DOMAIN output : output[k].kind = "PaywallPlaceholder"}

\* the output nodes that render the block at position i
NodesOf(i) == {k \in DOMAIN output : output[k].src = i}

RECURSIVE RenderWithoutPaywall(_, _, _)
\* the rendering of the first n blocks of b when no boundary is in force
RenderWithoutPaywall(table, b, n) ==
    IF n = 0 THEN <<>>
    ELSE RenderWithoutPaywall(table, b, n - 1)
         \o StrictCreateElement(table, b[n], n, 0, TRUE)

\* C7: in a render with showPaywalledContent false and a paywall marker in
\* the body, no node positioned after the marker is in the output, exactly
\* one placeholder stands in for all of them (never none, never several),
\* and the nodes before the marker are those of a render without paywall.
C7_SinglePlaceholderAfterMarker ==
    /\ ~strictShow => Cardinality(Placeholders) <= 1
    /\ (rPc = "done" /\ ~strictShow /\ FirstMarker(body) # 0) =>
           LET m == FirstMarker(body)
           IN /\ Cardinality(Placeholders) = 1
              /\ \A k \in DOMAIN output : output[k].src <= m
              /\ output[Len(output)].kind = "PaywallPlaceholder"
              /\ SubSeq(output, 1, Len(output) - 1)
                     = RenderWithoutPaywall(ActiveTable, body, m - 1)

\* C7 witness: a finished email render of a poll, the marker and two more
\* blocks: the poll and one placeholder are all that is rendered.
C7_Witness ==
    /\ rPc = "done"
    /\ component = "EmailRender"
    /\ ~strictShow
    /\ Len(body) = 3
    /\ body[1].tag = "poll" /\ body[2].tag = "paywall" /\ body[3].tag = "embed"
    /\ Len(output) = 2
    /\ output[2].kind = "PaywallPlaceholder"

\* C8: in a render with showPaywalledContent true no node is replaced by
\* the placeholder, wherever the marker is and whether or not it is there:
\* the output holds no placeholder and every paragraph and poll of the body,
\* also past a marker, has its node.
C8_NoPlaceholderWhenShown ==
    propShow = <<TRUE>> =>
        /\ Placeholders = {}
        /\ rPc = "done" =>
               \A i \in DOMAIN body :
                   body[i].tag \in {"p", "poll"} => NodesOf(i) # {}

\* C8 witness: a finished render with the flag set of a body whose marker is
\* followed by a paragraph, which is rendered.
C8_Witness ==
    /\ rPc = "done"
    /\ propShow = <<TRUE>>
    /\ Len(body) = 3
    /\ body[1].tag = "p" /\ body[2].tag = "paywall" /\ body[3].tag = "p"
    /\ Len(output) = 2
    /\ output[2].src = 3

\* C9: the node of a poll block carries vote-casting controls exactly in
\* the browser context; in the email context it is the static tally of the
\* block's options; in both it is what the active table's poll entry
\* returns, and a poll in front of the boundary is rendered.
C9_EmailPollIsStatic ==
    /\ \A k \in DOMAIN output :
           body[output[k].src].tag = "poll" =>
               /\ output[k].interactive <=> component # "EmailRender"
               /\ <<output[k]>> = Invoke(ActiveTable["poll"], body[output[k].src],
                                         output[k].src, strictShow)
               /\ component = "EmailRender" =>
                      /\ output[k].kind = "EmailPoll"
                      /\ output[k].rows =
                             [i \in DOMAIN body[output[k].src].options |->
                                 <<body[output[k].src].options[i], "123 votes (10%)">>]
    /\ rPc = "done" =>
           \A i \in DOMAIN body :
               (body[i].tag = "poll" /\ (cutoff = 0 \/ i < cutoff)) =>
                   NodesOf(i) # {}

\* C9 witness: a finished email render whose output holds a poll's tally.
C9_Witness ==
    /\ rPc = "done"
    /\ component = "EmailRender"
    /\ \E k \in DOMAIN output :
           /\ output[k].kind = "EmailPoll"
           /\ Len(output[k].rows) = 2

\* C10: the email table's SubscribeNow entry returns nothing for every
\* block and flag, and no output node of an email render comes from a
\* SubscribeNow block or is a call-to-action.
C10_EmailSubscribeNowEmpty ==
    /\ \A b \in Blocks : \A show \in BOOLEAN :
           Invoke(opts["SubscribeNow"], b, 1, show) = Nothing
    /\ component = "EmailRender" =>
           \A k \in DOMAIN output :
               /\ body[output[k].src].tag # "SubscribeNow"
               /\ output[k].kind # "SubscribeNow"

\* C10 witness: a finished email render of a SubscribeNow block between two
\* paragraphs: only the paragraphs are rendered.
C10_Witness ==
    /\ rPc = "done"
    /\ component = "EmailRender"
    /\ Len(body) = 3
    /\ body[1].tag = "p" /\ body[2].tag = "SubscribeNow" /\ body[3].tag = "p"
    /\ Len(output) = 2

\* a pre block whose child is a mermaid code block
IsMermaidPre(b) ==
    b.tag = "pre" /\ b.child = "code" /\ b.className = << <<"lang-", "mermaid">> >>

\* C11: in an email render a pre block with a mermaid code child renders as
\* the static diagram and as nothing else, a pre block with a code child in
\* any other language (or none) renders through the email syntax
\* highlighter, and a pre block whose child is not code renders nothing.
C11_EmailPreByChild ==
    component = "EmailRender" =>
        /\ \A k \in DOMAIN output :
               LET b == body[output[k].src]
               IN b.tag = "pre" =>
                      /\ b.child = "code"
                      /\ IsMermaidPre(b) <=> output[k].kind = "EmailMermaid"
                      /\ ~IsMermaidPre(b) <=> output[k].kind = "EmailSyntaxHighlighter"
        /\ rPc = "done" =>
               \A i \in DOMAIN body :
                   (body[i].tag = "pre" /\ (cutoff = 0 \/ i < cutoff)) =>
                       Cardinality(NodesOf(i)) = (IF body[i].child = "code" THEN 1 ELSE 0)

\* C11 witness: a finished email render of a mermaid block, a js block and a
\* pre block without code: the diagram and the highlighter, in that order.
C11_Witness ==
    /\ rPc = "done"
    /\ component = "EmailRender"
    /\ Len(body) = 3
    /\ IsMermaidPre(body[1])
    /\ body[2].tag = "pre" /\ body[2].className = << <<"lang-", "js">> >>
    /\ body[3].tag = "pre" /\ body[3].child = "img"
    /\ Len(output) = 2
    /\ output[1].kind = "EmailMermaid"
    /\ output[2].kind = "EmailSyntaxHighlighter"
    /\ output[2].rows = << <<"js">> >>

\* the output nodes of the block at position i, in order
NodeSeqOf(i) == SelectSeq(output, LAMBDA n : n.src = i)

\* the entries the context of the render under way adds to the base table
ContextOverrides ==
    IF component = "EmailRender" THEN emailOverrides ELSE browserOverrides

\* C12: the output of every rendered block with a recognised tag is exactly
\* what its entry returns, the context's entry if the tag has one, else the
\* base table's, and the node as it is when neither table has the tag.
C12_OverrideResolution ==
    \A i \in DOMAIN body :
        (i < pos /\ body[i].tag \in RecognizedTags /\ (cutoff = 0 \/ i <= cutoff)) =>
            NodeSeqOf(i) =
                IF body[i].tag \in DOMAIN ContextOverrides
                THEN Invoke(ContextOverrides[body[i].tag], body[i], i, strictShow)
                ELSE IF body[i].tag \in DOMAIN markdownOptsOverrides
                THEN Invoke(markdownOptsOverrides[body[i].tag], body[i], i, strictShow)
                ELSE <<Node(body[i].tag, FALSE, i, <<>>)>>

\* C12 witness: a finished email render of a paragraph (no entry: emitted as
\* it is), a SubscribeNow (its entry returns nothing) and a js pre block (an
\* entry of both tables: the email one renders it).
C12_Witness ==
    /\ rPc = "done"
    /\ component = "EmailRender"
    /\ Len(body) = 3
    /\ body[1].tag = "p"
    /\ body[2].tag = "SubscribeNow"
    /\ body[3].tag = "pre" /\ body[3].className = << <<"lang-", "js">> >>
    /\ "pre" \in DOMAIN markdownOptsOverrides
    /\ Len(output) = 2
    /\ output[1].kind = "p"
    /\ output[2].kind = "EmailSyntaxHighlighter"

C20_AtMostOneGrayBox ==
    (Allocated /\ total > 0) =>
        /\ emptyBoxes \in {0, 1}
        /\ additionBoxes + deletionBoxes \in {4, 5}

\* C20 witness: a finished render of a 2 / 1 change: 3 green, 1 red and
\* one gray box.
C20_Witness ==
    /\ dsPc = "done"
    /\ propsAdditions = <<2>> /\ propsDeletions = <<1>>
    /\ additionBoxes = 3 /\ deletionBoxes = 1 /\ emptyBoxes = 1
    /\ CountOf("gray") = 1

(***************************************************************************)
(* IssueReference (polarkit/components/Issue/Reference.tsx): one reference *)
(* of an issue, rendered by the renderer of its type.  A rendered element  *)
(* is a record of its kind, its href and its text; strings that are cut or *)
(* joined are sequences of their pieces.                                   *)
(***************************************************************************)
Element(kind, href, text) == [kind |-> kind, href |-> href, text |-> text]

\* an optional string or object, as a condition (the strings are not empty)
Defined(p) == p # Undefined

\* String.prototype.substring(start, end) for 0 <= start <= end
Substring(str, start, end) ==
    SubSeq(str, start + 1, IF end < Len(str) THEN end ELSE Len(str))

\* the viewing organization and the organization of a fork
OrgNames == {"polar", "fork"}

\* commit hashes shorter than, as long as and longer than the part shown
Shas == { <<"a", "1", "b", "2">>,
          <<"a", "1", "b", "2", "c", "3">>,
          <<"a", "1", "b", "2", "c", "3", "d", "4">> }

\* ExternalGitHubCommitReference
CommitPayloads ==
    [organization_name : OrgNames,
     repository_name   : {"repo"},
     sha               : Shas,
     branch_name       : {Undefined, <<"main">>},
     author_avatar     : {"avatar.png"}]

\* PullRequestReference
PullRequestPayloads ==
    [state         : {"open", "closed", "draft"},
     merged_at     : {Undefined, <<"2023-03-03">>},
     closed_at     : {Undefined, <<"2023-02-02">>},
     created_at    : {"2023-01-01"},
     number        : {"12"},
     title         : {"Fix it"},
     additions     : {0, 3},
     deletions     : {0, 2},
     author_avatar : {"avatar.png"}]

\* ExternalGitHubPullRequestReference; merged_at is the pull request's own
\* merge time, which IssueReferenceExternalGitHubPullRequest never reads
ExternalPullRequestPayloads ==
    [state             : {"open", "closed", "draft"},
     merged_at         : {Undefined, <<"2023-03-03">>},
     organization_name : OrgNames,
     repository_name   : {"repo"},
     number            : {"12"},
     title             : {"Fix it"},
     author_avatar     : {"avatar.png"}]

\* IssueReferenceRead: a type and the payload of that type
ReferenceOf(type, payloads) ==
    {[type |-> type, payload |-> p] : p \in {Undefined} \cup {<<x>> : x \in payloads}}

References ==
    ReferenceOf("pull_request", PullRequestPayloads)
        \cup ReferenceOf("external_github_commit", CommitPayloads)
        \cup ReferenceOf("external_github_pull_request", ExternalPullRequestPayloads)
        \cup ReferenceOf("unknown", {})

\* githubPullReqeustUrl of polarkit/utils
githubPullReqeustUrl(org, repo, number) ==
    <<"https://github.com/", org, "/", repo, "/pull/", number>>

\* props.repoName of IssueReference
RepoName == "repo"

\* IssueReferenceExternalGitHubCommit with a fault: the link to the commit is
\* not guarded, so a commit with a branch shows both links
IssueReferenceExternalGitHubCommitBothLinks(orgName, commit) ==
    IF ~Defined(commit) THEN <<>>
    ELSE LET c == commit[1]
             baseHref == <<"https://github.com/", c.organization_name, "/",
                           c.repository_name>>
             commitHref == baseHref \o <<"/commit/">> \o c.sha
             isFork == orgName # c.organization_name
         IN <<Element("GitBranchIcon", <<>>, <<>>)>>
            \o (IF Defined(c.branch_name)
                THEN <<Element("a", baseHref \o <<"/tree/", c.branch_name[1]>>,
                               (IF isFork
                                THEN <<c.organization_name, "/", c.repository_name, "/">>
                                ELSE <<>>) \o <<c.branch_name[1]>>)>>
                ELSE <<>>)
            \o <<Element("a", commitHref, Substring(c.sha, 0, 6))>>
            \o <<Element("Avatar", <<c.author_avatar>>, <<>>)>>

\* IssueReferenceExternalGitHubCommit (lines 90-136)
IssueReferenceExternalGitHubCommit(orgName, commit) ==
    IF ~Defined(commit) THEN <<>>
    ELSE LET c == commit[1]
             baseHref == <<"https://github.com/", c.organization_name, "/",
                           c.repository_name>>
             commitHref == baseHref \o <<"/commit/">> \o c.sha
             isFork == orgName # c.organization_name
         IN <<Element("GitBranchIcon", <<>>, <<>>)>>
            \o (IF Defined(c.branch_name)
                THEN <<Element("a", baseHref \o <<"/tree/", c.branch_name[1]>>,
                               (IF isFork
                                THEN <<c.organization_name, "/", c.repository_name, "/">>
                                ELSE <<>>) \o <<c.branch_name[1]>>)>>
                ELSE <<>>)
            \o (IF ~Defined(c.branch_name)
                THEN <<Element("a", commitHref, Substring(c.sha, 0, 6))>>
                ELSE <<>>)
            \o <<Element("Avatar", <<c.author_avatar>>, <<>>)>>

\* IssueReferenceExternalGitHubPullRequest (lines 138-170)
IssueReferenceExternalGitHubPullRequest(pr) ==
    IF ~Defined(pr) THEN <<>>
    ELSE LET p == pr[1]
             isMerged == p.state = "closed"
             href == githubPullReqeustUrl(p.organization_name, p.repository_name,
                                          p.number)
         IN (IF isMerged THEN <<Element("GitMergeIcon", <<>>, <<>>)>> ELSE <<>>)
            \o (IF ~isMerged THEN <<Element("GitPullRequestIcon", <<>>, <<>>)>> ELSE <<>>)
            \o <<Element("a", href, <<p.title>>)>>
            \o <<Element("a", href, <<p.organization_name, "/", p.repository_name,
                                      "#", p.number>>)>>
            \o <<Element("Avatar", <<p.author_avatar>>, <<>>)>>

\* the five boxes DiffStat renders for a pull request, as one element
DiffStatElement(prAdditions, prDeletions) ==
    LET a == Allocation(<<prAdditions>>, <<prDeletions>>)
    IN Element("DiffStat", <<>>,
               generateDiffBox("green", a.additionBoxes)
                   \o generateDiffBox("red", a.deletionBoxes)
                   \o generateDiffBox("gray", a.emptyBoxes))

\* the elements IssueReferencePullRequest returns for a formatting
PullRequestElements(orgName, repoName, p, isMerged, isClosed, isOpen, formatting) ==
    LET href == githubPullReqeustUrl(orgName, repoName, p.number)
    IN (IF isMerged
        THEN <<Element("GitMergeIcon", <<>>, <<formatting.iconClasses>>)>> ELSE <<>>)
       \o (IF isClosed
           THEN <<Element("GitPullRequestClosedIcon", <<>>, <<formatting.iconClasses>>)>>
           ELSE <<>>)
       \o (IF isOpen
           THEN <<Element("GitPullRequestIcon", <<>>, <<formatting.iconClasses>>)>>
           ELSE <<>>)
       \o <<Element("a", href, <<p.title>>)>>
       \o <<Element("label", <<>>, <<"#", p.number, " ", formatting.label, " ">>)>>
       \o (IF formatting.timestamp # ""
           THEN <<Element("TimeAgo", <<>>, <<formatting.timestamp>>)>> ELSE <<>>)
       \o <<DiffStatElement(p.additions, p.deletions)>>
       \o <<Element("Avatar", <<p.author_avatar>>, <<>>)>>

\* IssueReferencePullRequest with a fault: a closed pull request counts as
\* merged whether it was merged or not
IssueReferencePullRequestClosedIsMerged(orgName, repoName, pr) ==
    IF ~Defined(pr) THEN <<>>
    ELSE LET p == pr[1]
             isMerged == p.state = "closed"
             formatting ==
                 IF isMerged
                 THEN [label |-> "merged",
                       timestamp |-> IF Defined(p.merged_at) THEN p.merged_at[1] ELSE "",
                       iconClasses |-> "bg-purple-100 border-purple-200"]
                 ELSE [label |-> "opened",
                       timestamp |-> p.created_at,
                       iconClasses |-> "bg-green-100 border-green-200"]
         IN PullRequestElements(orgName, repoName, p, isMerged, FALSE, ~isMerged,
                                formatting)

\* IssueReferencePullRequest (lines 192-267)
IssueReferencePullRequest(orgName, repoName, pr) ==
    IF ~Defined(pr) THEN <<>>
    ELSE LET p == pr[1]
             isMerged == p.state = "closed" /\ Defined(p.merged_at)
             isClosed == ~isMerged /\ p.state = "closed"
             isOpen   == ~isMerged /\ ~isClosed
             formatting ==
                 IF isMerged
                 THEN [label |-> "merged",
                       timestamp |-> p.merged_at[1],
                       iconClasses |-> "bg-purple-100 border-purple-200"]
                 ELSE IF isClosed
                 THEN [label |-> "closed",
                       timestamp |-> IF Defined(p.closed_at) THEN p.closed_at[1] ELSE "",
                       iconClasses |-> "bg-red-100 border-red-200"]
                 ELSE [label |-> "opened",
                       timestamp |-> p.created_at,
                       iconClasses |-> "bg-green-100 border-green-200"]
         IN PullRequestElements(orgName, repoName, p, isMerged, isClosed, isOpen,
                                formatting)

ReferenceInit ==
    /\ refOrgName \in OrgNames
    /\ reference \in {Undefined} \cup {<<r>> : r \in References}
    /\ refView = <<>>
    /\ refPc = "props"
    \* no DiffStat render is under way
    /\ propsAdditions = Undefined
    /\ propsDeletions = Undefined
    /\ additionBoxes = 0
    /\ deletionBoxes = 0
    /\ emptyBoxes = 0
    /\ marks = <<>>
    /\ dsPc = "idle"
    \* no markdown render is under way
    /\ component = "none"
    /\ propShow = Undefined
    /\ body = <<>>
    /\ strictShow = FALSE
    /\ cutoff = 0
    /\ pos = 1
    /\ output = <<>>
    /\ rPc = "idle"
    \* no article mutation has been started
    /\ artStale = {}
    /\ artMutation = [status |-> "idle", kind |-> "none", org |-> "none", id |-> "none"]
    /\ artCount = 0
    \* the subscription success page is not shown
    /\ email = <<>>
    /\ emailSigninLoading = FALSE
    /\ sgnRequests = 0
    /\ sgnPushes = <<>>
    /\ sgnHandlers = <<>>
    \* no post is mounted
    /\ publishedAt = <<>>
    /\ now = 0
    /\ publishedDateText = <<>>
    /\ lfRenders = 0
    \* the team settings page is not shown
    /\ stripePortalLoading = FALSE
    /\ portalHandlers = <<>>
    /\ locationHref = "/settings"
    /\ showDidSave = FALSE
    /\ saves = <<>>
    /\ saveTimers = <<>>

\* lines 24-35: a pull request reference
RenderPullRequestReference ==
    /\ refPc = "props"
    /\ Defined(reference)
    /\ reference[1].type = "pull_request"
    /\ refView' = IssueReferencePullRequest(refOrgName, RepoName, reference[1].payload)
    /\ refPc' = "done"
    /\ UNCHANGED <<refOrgName, reference>>
    /\ UNCHANGED <<dsVars, rVars, artVars, sgnVars, lfVars, payVars>>

\* lines 37-50: a commit reference
RenderCommitReference ==
    /\ refPc = "props"
    /\ Defined(reference)
    /\ reference[1].type = "external_github_commit"
    /\ refView' = IssueReferenceExternalGitHubCommit(refOrgName, reference[1].payload)
    /\ refPc' = "done"
    /\ UNCHANGED <<refOrgName, reference>>
    /\ UNCHANGED <<dsVars, rVars, artVars, sgnVars, lfVars, payVars>>

\* lines 52-62: a pull request of another repository
RenderExternalPullRequestReference ==
    /\ refPc = "props"
    /\ Defined(reference)
    /\ reference[1].type = "external_github_pull_request"
    /\ refView' = IssueReferenceExternalGitHubPullRequest(reference[1].payload)
    /\ refPc' = "done"
    /\ UNCHANGED <<refOrgName, reference>>
    /\ UNCHANGED <<dsVars, rVars, artVars, sgnVars, lfVars, payVars>>

\* line 64: no reference, or one of no known type
RenderNoReference ==
    /\ refPc = "props"
    /\ \/ ~Defined(reference)
       \/ /\ Defined(reference)
          /\ reference[1].type \notin {"pull_request", "external_github_commit",
                                       "external_github_pull_request"}
    /\ refView' = <<>>
    /\ refPc' = "done"
    /\ UNCHANGED <<refOrgName, reference>>
    /\ UNCHANGED <<dsVars, rVars, artVars, sgnVars, lfVars, payVars>>

ReferenceNext ==
    \/ RenderPullRequestReference
    \/ RenderCommitReference
    \/ RenderExternalPullRequestReference
    \/ RenderNoReference

SpecReference == ReferenceInit /\ [][ReferenceNext]_vars

(***************************************************************************)
(* IssueReference: properties                                              *)
(***************************************************************************)
\* the reference being rendered is of the given type and has its payload
RendersPayload(type) ==
    /\ Defined(reference)
    /\ reference[1].type = type
    /\ Defined(reference[1].payload)

Payload == reference[1].payload[1]

\* the elements of the given kinds in the view, in order
ElementsOf(kinds) == SelectSeq(refView, LAMBDA e : e.kind \in kinds)

\* C14: a commit reference is rendered whether or not it has a branch, and
\* shows exactly one link: with a branch_name the link to the branch, its
\* text prefixed with organization/repository/ exactly when the commit's
\* organization is not the viewing orgName; without one the link to the
\* commit, showing the first six characters of its sha.
C14_CommitShowsOneLink ==
    RendersPayload("external_github_commit") =>
        /\ refPc = "props" => ENABLED RenderCommitReference
        /\ refPc = "done" =>
            LET links == ElementsOf({"a"})
                c     == Payload
                base  == <<"https://github.com/", c.organization_name, "/",
                           c.repository_name>>
            IN /\ Len(links) = 1
               /\ c.branch_name # Undefined =>
                      /\ links[1].href = base \o <<"/tree/">> \o c.branch_name
                      /\ links[1].text =
                             IF c.organization_name # refOrgName
                             THEN <<c.organization_name, "/", c.repository_name, "/">>
                                      \o c.branch_name
                             ELSE c.branch_name
               /\ c.branch_name = Undefined =>
                      /\ links[1].href = base \o <<"/commit/">> \o c.sha
                      /\ Len(links[1].text) = (IF Len(c.sha) < 6 THEN Len(c.sha) ELSE 6)
                      /\ \A i \in DOMAIN links[1].text : links[1].text[i] = c.sha[i]

\* C14 witness: a commit of a fork without a branch, rendered by a viewer
\* of another organization: the one link shows a1b2c3 of a1b2c3d4.
C14_Witness ==
    /\ RendersPayload("external_github_commit")
    /\ refPc = "done"
    /\ refOrgName = "polar"
    /\ Payload.organization_name = "fork"
    /\ Payload.branch_name = Undefined
    /\ Len(Payload.sha) = 8
    /\ ElementsOf({"a"}) =
           <<Element("a", <<"https://github.com/", "fork", "/", "repo", "/commit/",
                            "a", "1", "b", "2", "c", "3", "d", "4">>,
                     <<"a", "1", "b", "2", "c", "3">>)>>

\* the class the claim gives a pull request
ClassOf(p) ==
    IF p.state = "closed" /\ p.merged_at # Undefined THEN "merged"
    ELSE IF p.state = "closed" THEN "closed"
    ELSE "opened"

IconOf(class) ==
    CASE class = "merged" -> "GitMergeIcon"
      [] class = "closed" -> "GitPullRequestClosedIcon"
      [] class = "opened" -> "GitPullRequestIcon"

IconClassesOf(class) ==
    CASE class = "merged" -> "bg-purple-100 border-purple-200"
      [] class = "closed" -> "bg-red-100 border-red-200"
      [] class = "opened" -> "bg-green-100 border-green-200"

\* C16: a rendered pull request shows exactly one of the three icons, and
\* the icon, its colours, the label and the time shown all belong to one
\* class: merged (merged_at) iff the state is closed and merged_at is
\* present, closed (closed_at) iff the state is closed and merged_at is
\* absent, opened (created_at) otherwise; a closed pull request without
\* closed_at is rendered with no relative time.
C16_PullRequestClass ==
    (RendersPayload("pull_request") /\ refPc = "done") =>
            LET p     == Payload
                class == ClassOf(p)
                icons == ElementsOf({"GitMergeIcon", "GitPullRequestClosedIcon",
                                     "GitPullRequestIcon"})
                times == ElementsOf({"TimeAgo"})
            IN /\ icons = <<Element(IconOf(class), <<>>, <<IconClassesOf(class)>>)>>
               /\ ElementsOf({"label"}) =
                      <<Element("label", <<>>, <<"#", p.number, " ", class, " ">>)>>
               /\ class = "merged" => times = <<Element("TimeAgo", <<>>, p.merged_at)>>
               /\ class = "opened" => times = <<Element("TimeAgo", <<>>, <<p.created_at>>)>>
               /\ (class = "closed" /\ p.closed_at # Undefined) =>
                      times = <<Element("TimeAgo", <<>>, p.closed_at)>>
               /\ (class = "closed" /\ p.closed_at = Undefined) => times = <<>>

\* C16 witness: a pull request closed without a merge and without closed_at:
\* the closed icon, the label "closed" and no relative time.
C16_Witness ==
    /\ RendersPayload("pull_request")
    /\ refPc = "done"
    /\ Payload.state = "closed"
    /\ Payload.merged_at = Undefined
    /\ Payload.closed_at = Undefined
    /\ ElementsOf({"GitPullRequestClosedIcon"}) # <<>>
    /\ ElementsOf({"TimeAgo"}) = <<>>

(***************************************************************************)
(* Article queries and mutations (Reference.tsx, lines 348-433).  The      *)
(* query client holds the cached article queries by key; invalidating a    *)
(* key marks every cached query whose key starts with it stale, and a      *)
(* stale query is fresh again once it has been fetched anew.               *)
(***************************************************************************)
\* at most MaxMutations mutations are started
MaxMutations == 2

ArticleOrgs == {"polar", "other"}

ArticleIds == {"a1", "a2"}

\* the keys of the queries in the cache, one or more per query hook
CachedQueryKeys ==
    { <<"article", "organization", "polar", "true">>,
      <<"article", "organization", "polar", "undefined">>,
      <<"article", "organization", "other", "true">>,
      <<"article", "list">>,
      <<"article", "id", "a1">>,
      <<"article", "id", "a2">>,
      <<"article", "lookup", "polar", "hello">>,
      <<"article", "lookup", "other", "world">>,
      <<"article", "receivers", "polar", "false">> }

\* partial matching of query keys: the filter key is a prefix of the key
MatchesQueryKey(filterKey, key) ==
    /\ Len(filterKey) <= Len(key)
    /\ \A i \in DOMAIN filterKey : key[i] = filterKey[i]

\* queryClient.invalidateQueries for each of the filter keys in turn
InvalidateQueries(stale, filterKeys) ==
    stale \cup {k \in CachedQueryKeys :
                   \E i \in DOMAIN filterKeys : MatchesQueryKey(filterKeys[i], k)}

\* useCreateArticle: the keys onSuccess invalidates
useCreateArticleOnSuccess(result) ==
    << <<"article", "organization", result.org>>,
       <<"article", "list">> >>

\* useUpdateArticle with a fault: the lookup queries are not invalidated
useUpdateArticleOnSuccessNoLookup(result) ==
    << <<"article", "organization", result.org>>,
       <<"article", "id", result.id>>,
       <<"article", "list">> >>

\* useUpdateArticle: the keys onSuccess invalidates
useUpdateArticleOnSuccess(result) ==
    << <<"article", "organization", result.org>>,
       <<"article", "id", result.id>>,
       <<"article", "lookup">>,
       <<"article", "list">> >>

\* useDeleteArticle: the keys onSuccess invalidates
useDeleteArticleOnSuccess(result) ==
    << <<"article">> >>

\* the onSuccess callback of the mutation hook of a kind
OnSuccessKeys(kind, result) ==
    CASE kind = "create" -> useCreateArticleOnSuccess(result)
      [] kind = "update" -> useUpdateArticleOnSuccess(result)
      [] kind = "delete" -> useDeleteArticleOnSuccess(result)

ArticlesInit ==
    /\ artStale = {}
    /\ artMutation = [status |-> "idle", kind |-> "none", org |-> "none", id |-> "none"]
    /\ artCount = 0
    \* no DiffStat render is under way
    /\ propsAdditions = Undefined
    /\ propsDeletions = Undefined
    /\ additionBoxes = 0
    /\ deletionBoxes = 0
    /\ emptyBoxes = 0
    /\ marks = <<>>
    /\ dsPc = "idle"
    \* no markdown render is under way
    /\ component = "none"
    /\ propShow = Undefined
    /\ body = <<>>
    /\ strictShow = FALSE
    /\ cutoff = 0
    /\ pos = 1
    /\ output = <<>>
    /\ rPc = "idle"
    \* no issue reference is being rendered
    /\ refOrgName = "polar"
    /\ reference = <<>>
    /\ refView = <<>>
    /\ refPc = "idle"
    \* the subscription success page is not shown
    /\ email = <<>>
    /\ emailSigninLoading = FALSE
    /\ sgnRequests = 0
    /\ sgnPushes = <<>>
    /\ sgnHandlers = <<>>
    \* no post is mounted
    /\ publishedAt = <<>>
    /\ now = 0
    /\ publishedDateText = <<>>
    /\ lfRenders = 0
    \* the team settings page is not shown
    /\ stripePortalLoading = FALSE
    /\ portalHandlers = <<>>
    /\ locationHref = "/settings"
    /\ showDidSave = FALSE
    /\ saves = <<>>
    /\ saveTimers = <<>>

\* mutate(): the mutation function is called for an article; the api's
\* answer is outstanding
MutationStarts ==
    /\ artMutation.status # "pending"
    /\ artCount < MaxMutations
    /\ \E kind \in {"create", "update", "delete"}, org \in ArticleOrgs, id \in ArticleIds :
           artMutation' = [status |-> "pending", kind |-> kind, org |-> org, id |-> id]
    /\ artCount' = artCount + 1
    /\ UNCHANGED artStale
    /\ UNCHANGED <<dsVars, rVars, refVars, sgnVars, lfVars, payVars>>

\* the api call resolves: onSuccess runs with the article it returned
MutationSucceeds ==
    /\ artMutation.status = "pending"
    /\ artStale' = InvalidateQueries(artStale,
                       OnSuccessKeys(artMutation.kind,
                                     [org |-> artMutation.org, id |-> artMutation.id]))
    /\ artMutation' = [artMutation EXCEPT !.status = "success"]
    /\ UNCHANGED artCount
    /\ UNCHANGED <<dsVars, rVars, refVars, sgnVars, lfVars, payVars>>

\* the api call rejects: no hook has an onError, nothing else runs
MutationFails ==
    /\ artMutation.status = "pending"
    /\ artMutation' = [artMutation EXCEPT !.status = "error"]
    /\ UNCHANGED <<artStale, artCount>>
    /\ UNCHANGED <<dsVars, rVars, refVars, sgnVars, lfVars, payVars>>

\* a stale query is fetched anew (its queryFn resolves)
QueryRefetched ==
    /\ \E k \in artStale : artStale' = artStale \ {k}
    /\ UNCHANGED <<artMutation, artCount>>
    /\ UNCHANGED <<dsVars, rVars, refVars, sgnVars, lfVars, payVars>>

ArticlesNext ==
    \/ MutationStarts
    \/ MutationSucceeds
    \/ MutationFails
    \/ QueryRefetched

SpecArticles == ArticlesInit /\ [][ArticlesNext]_vars

(***************************************************************************)
(* Article mutations: properties                                           *)
(***************************************************************************)
\* the cached queries the claim names for a mutation
ClaimedInvalid(m) ==
    {k \in CachedQueryKeys :
        \/ m.kind \in {"create", "update"} /\ k = <<"article", "list">>
        \/ m.kind \in {"create", "update"} /\ k[2] = "organization" /\ k[3] = m.org
        \/ m.kind = "update" /\ k[2] = "id" /\ k[3] = m.id
        \/ m.kind = "update" /\ k[2] = "lookup"
        \/ m.kind = "delete" /\ k[1] = "article"}

\* C17: the step in which a pending article mutation succeeds marks stale
\* exactly the cached queries named for its kind (create: the list and the
\* owning organization's queries; update: those, the query of the article's
\* id and every lookup query; delete: every article query), on top of those
\* already stale; the step in which it fails leaves the stale set as it was.
C17_MutationInvalidates ==
    [][/\ (artMutation.status = "pending" /\ artMutation'.status = "success") =>
              artStale' = artStale \cup ClaimedInvalid(artMutation)
       /\ (artMutation.status = "pending" /\ artMutation'.status = "error") =>
              artStale' = artStale]_vars

\* C17 witness: an update of article a1 of polar has succeeded with nothing
\* stale before: the list, polar's two organization queries, the query of a1
\* and both lookup queries are stale, the others are not.
C17_Witness ==
    /\ artMutation = [status |-> "success", kind |-> "update", org |-> "polar", id |-> "a1"]
    /\ artCount = 1
    /\ artStale = { <<"article", "organization", "polar", "true">>,
                    <<"article", "organization", "polar", "undefined">>,
                    <<"article", "list">>,
                    <<"article", "id", "a1">>,
                    <<"article", "lookup", "polar", "hello">>,
                    <<"article", "lookup", "other", "world">> }

(***************************************************************************)
(* SubscriptionSuccess (Subscriptions/SubscriptionSuccess.tsx): the        *)
(* "Sign in with email" button.  onEmailSignin is asynchronous and the     *)
(* button is never disabled, so a click can come while the request of an   *)
(* earlier one is outstanding; each call is followed on its own.           *)
(***************************************************************************)
\* the button is clicked at most MaxClicks times
MaxClicks == 4

\* customer_email of the subscribe session
Emails == {Undefined, <<"a@b.c">>, <<"d@e.f">>}

\* onEmailSignin up to its await: lines 35-42
Click ==
    /\ Len(sgnHandlers) < MaxClicks
    /\ IF ~Defined(email)
       THEN /\ sgnPushes' = Append(sgnPushes, <<"/login">>)
            /\ sgnHandlers' = Append(sgnHandlers, "returned")
            /\ UNCHANGED <<emailSigninLoading, sgnRequests>>
       ELSE /\ emailSigninLoading' = TRUE
            /\ sgnRequests' = sgnRequests + 1
            /\ sgnHandlers' = Append(sgnHandlers, "awaiting")
            /\ UNCHANGED sgnPushes
    /\ UNCHANGED email
    /\ UNCHANGED <<dsVars, rVars, refVars, artVars, lfVars, payVars>>

\* onEmailSignin from its await to router.push, for a call whose request
\* resolved, and the finally block: lines 43-45 and 48-50
RequestResolves ==
    /\ \E i \in DOMAIN sgnHandlers :
           /\ sgnHandlers[i] = "awaiting"
           /\ sgnHandlers' = [sgnHandlers EXCEPT ![i] = "resolved"]
    /\ sgnPushes' = Append(sgnPushes,
                           <<"/login/magic-link/request?", "email=", email[1]>>)
    /\ emailSigninLoading' = FALSE
    /\ UNCHANGED <<email, sgnRequests>>
    /\ UNCHANGED <<dsVars, rVars, refVars, artVars, lfVars, payVars>>

\* RequestRejects with a fault: the flag is reset at the end of the try
\* block instead of in a finally, so a failed request leaves it as it is
RequestRejectsNoFinally ==
    /\ \E i \in DOMAIN sgnHandlers :
           /\ sgnHandlers[i] = "awaiting"
           /\ sgnHandlers' = [sgnHandlers EXCEPT ![i] = "rejected"]
    /\ UNCHANGED <<email, emailSigninLoading, sgnRequests, sgnPushes>>
    /\ UNCHANGED <<dsVars, rVars, refVars, artVars, lfVars, payVars>>

\* onEmailSignin for a call whose request rejected: the empty catch and the
\* finally block, lines 46-50
RequestRejects ==
    /\ \E i \in DOMAIN sgnHandlers :
           /\ sgnHandlers[i] = "awaiting"
           /\ sgnHandlers' = [sgnHandlers EXCEPT ![i] = "rejected"]
    /\ emailSigninLoading' = FALSE
    /\ UNCHANGED <<email, sgnRequests, sgnPushes>>
    /\ UNCHANGED <<dsVars, rVars, refVars, artVars, lfVars, payVars>>

SigninInit ==
    /\ email \in Emails
    /\ emailSigninLoading = FALSE
    /\ sgnRequests = 0
    /\ sgnPushes = <<>>
    /\ sgnHandlers = <<>>
    \* no DiffStat render is under way
    /\ propsAdditions = Undefined
    /\ propsDeletions = Undefined
    /\ additionBoxes = 0
    /\ deletionBoxes = 0
    /\ emptyBoxes = 0
    /\ marks = <<>>
    /\ dsPc = "idle"
    \* no markdown render is under way
    /\ component = "none"
    /\ propShow = Undefined
    /\ body = <<>>
    /\ strictShow = FALSE
    /\ cutoff = 0
    /\ pos = 1
    /\ output = <<>>
    /\ rPc = "idle"
    \* no issue reference is being rendered
    /\ refOrgName = "polar"
    /\ reference = <<>>
    /\ refView = <<>>
    /\ refPc = "idle"
    \* no article mutation has been started
    /\ artStale = {}
    /\ artMutation = [status |-> "idle", kind |-> "none", org |-> "none", id |-> "none"]
    /\ artCount = 0
    \* no post is mounted
    /\ publishedAt = <<>>
    /\ now = 0
    /\ publishedDateText = <<>>
    /\ lfRenders = 0
    \* the team settings page is not shown
    /\ stripePortalLoading = FALSE
    /\ portalHandlers = <<>>
    /\ locationHref = "/settings"
    /\ showDidSave = FALSE
    /\ saves = <<>>
    /\ saveTimers = <<>>

SigninNext ==
    \/ Click
    \/ RequestResolves
    \/ RequestRejects

SpecSignin == SigninInit /\ [][SigninNext]_vars

(***************************************************************************)
(* SubscriptionSuccess: properties                                         *)
(***************************************************************************)
\* the number of calls of onEmailSignin in the given position
HandlersIn(status) ==
    Cardinality({i \in DOMAIN sgnHandlers : sgnHandlers[i] = status})

\* the pushes to the given kind of route
PushesTo(first) == SelectSeq(sgnPushes, LAMBDA r : r[1] = first)

\* C18: without a customer email every click pushes /login, no request is
\* ever sent and the loading flag is never set; with an email a click sets
\* the flag and sends one request, the magic-link page is pushed once per
\* request that has succeeded (never for one outstanding or failed), and
\* the step that ends a call, on success or on failure, leaves the flag
\* false.
C18_EmailSignin ==
    /\ [](email = Undefined =>
              /\ sgnRequests = 0
              /\ ~emailSigninLoading
              /\ Len(sgnPushes) = Len(sgnHandlers)
              /\ PushesTo("/login") = sgnPushes)
    /\ [](email # Undefined =>
              /\ sgnRequests = Len(sgnHandlers)
              /\ PushesTo("/login") = <<>>
              /\ Len(sgnPushes) = HandlersIn("resolved")
              /\ \A k \in DOMAIN sgnPushes :
                     sgnPushes[k] = <<"/login/magic-link/request?", "email=">> \o email)
    /\ [][/\ (email # Undefined /\ Len(sgnHandlers') > Len(sgnHandlers)) =>
                 (emailSigninLoading' /\ sgnRequests' = sgnRequests + 1)
          /\ HandlersIn("awaiting")' < HandlersIn("awaiting") =>
                 ~emailSigninLoading']_vars

\* C18 witness: two clicks with an email; the first request failed, the
\* second succeeded: two requests sent, one push, the flag is false.
C18_Witness ==
    /\ email = <<"a@b.c">>
    /\ sgnHandlers = <<"rejected", "resolved">>
    /\ sgnRequests = 2
    /\ sgnPushes = << <<"/login/magic-link/request?", "email=", "a@b.c">> >>
    /\ ~emailSigninLoading

(***************************************************************************)
(* LongformPost (Feed/LongformPost.tsx): the publication text.  The text   *)
(* is memoised on the article: it is computed, reading the clock, when the *)
(* post is mounted and when a new article object arrives, and kept across  *)
(* every other render.                                                     *)
(***************************************************************************)
\* the clock runs from 0 to MaxTime
MaxTime == 4

\* the post is rendered at most MaxRenders times
MaxRenders == 3

\* the clock ticks TicksPerDay times a day
TicksPerDay == 2

\* article.published_at
PublishedAts == {Undefined} \cup {<<t>> : t \in 1 .. MaxTime}

\* toLocaleString('en-US', { year, month, day }): the day of the time
toLocaleString(t) == [day |-> t \div TicksPerDay]

\* lines 37-40: the first useMemo
PublishedDate(published_at) ==
    IF Defined(published_at) THEN <<published_at[1]>> ELSE Undefined

\* lines 41-57: the second useMemo, computed with the clock at clock
PublishedDateText(publishedDate, clock) ==
    IF Defined(publishedDate)
    THEN IF clock > publishedDate[1]
         THEN [prefix |-> "", date |-> <<toLocaleString(publishedDate[1])>>]
         ELSE [prefix |-> "Scheduled on ", date |-> <<toLocaleString(publishedDate[1])>>]
    ELSE [prefix |-> "Unpublished", date |-> Undefined]

LongformInit ==
    /\ publishedAt \in PublishedAts
    /\ now \in 0 .. MaxTime
    /\ publishedDateText = <<>>
    /\ lfRenders = 0
    \* no DiffStat render is under way
    /\ propsAdditions = Undefined
    /\ propsDeletions = Undefined
    /\ additionBoxes = 0
    /\ deletionBoxes = 0
    /\ emptyBoxes = 0
    /\ marks = <<>>
    /\ dsPc = "idle"
    \* no markdown render is under way
    /\ component = "none"
    /\ propShow = Undefined
    /\ body = <<>>
    /\ strictShow = FALSE
    /\ cutoff = 0
    /\ pos = 1
    /\ output = <<>>
    /\ rPc = "idle"
    \* no issue reference is being rendered
    /\ refOrgName = "polar"
    /\ reference = <<>>
    /\ refView = <<>>
    /\ refPc = "idle"
    \* no article mutation has been started
    /\ artStale = {}
    /\ artMutation = [status |-> "idle", kind |-> "none", org |-> "none", id |-> "none"]
    /\ artCount = 0
    \* the subscription success page is not shown
    /\ email = <<>>
    /\ emailSigninLoading = FALSE
    /\ sgnRequests = 0
    /\ sgnPushes = <<>>
    /\ sgnHandlers = <<>>
    \* the team settings page is not shown
    /\ stripePortalLoading = FALSE
    /\ portalHandlers = <<>>
    /\ locationHref = "/settings"
    /\ showDidSave = FALSE
    /\ saves = <<>>
    /\ saveTimers = <<>>

\* the first render: both memos are computed
LongformMount ==
    /\ lfRenders = 0
    /\ publishedDateText' = <<PublishedDateText(PublishedDate(publishedAt), now)>>
    /\ lfRenders' = 1
    /\ UNCHANGED <<publishedAt, now>>
    /\ UNCHANGED <<dsVars, rVars, refVars, artVars, sgnVars, payVars>>

\* a later render with the same article object: both memos are kept
LongformRerender ==
    /\ lfRenders > 0
    /\ lfRenders < MaxRenders
    /\ lfRenders' = lfRenders + 1
    /\ UNCHANGED <<publishedAt, now, publishedDateText>>
    /\ UNCHANGED <<dsVars, rVars, refVars, artVars, sgnVars, payVars>>

\* a later render with a new article object: both memos are computed anew
LongformNewArticle ==
    /\ lfRenders > 0
    /\ lfRenders < MaxRenders
    /\ publishedAt' \in PublishedAts
    /\ publishedDateText' = <<PublishedDateText(PublishedDate(publishedAt'), now)>>
    /\ lfRenders' = lfRenders + 1
    /\ UNCHANGED now
    /\ UNCHANGED <<dsVars, rVars, refVars, artVars, sgnVars, payVars>>

\* time passes
ClockTick ==
    /\ now < MaxTime + 1
    /\ now' = now + 1
    /\ UNCHANGED <<publishedAt, publishedDateText, lfRenders>>
    /\ UNCHANGED <<dsVars, rVars, refVars, artVars, sgnVars, payVars>>

LongformNext ==
    \/ LongformMount
    \/ LongformRerender
    \/ LongformNewArticle
    \/ ClockTick

SpecLongform == LongformInit /\ [][LongformNext]_vars

(***************************************************************************)
(* LongformPost: properties                                                *)
(***************************************************************************)
\* C19: the text a mounted post shows is 'Unpublished' exactly when
\* published_at is absent, the date prefixed with 'Scheduled on' exactly
\* when published_at is later than the current time, and the plain date
\* exactly when published_at is earlier than the current time.
C19_PublicationText ==
    lfRenders > 0 =>
        LET text == publishedDateText[1]
        IN /\ text.prefix = "Unpublished" <=> publishedAt = Undefined
           /\ text.prefix = "Scheduled on " <=>
                  (publishedAt # Undefined /\ publishedAt[1] > now)
           /\ text.prefix = "" <=>
                  (publishedAt # Undefined /\ publishedAt[1] < now)
           /\ publishedAt # Undefined =>
                  text.date = <<toLocaleString(publishedAt[1])>>

(***************************************************************************)
(* IssueReference: the two pull request renderers compared                 *)
(***************************************************************************)
\* the pull request of an external reference, as a PullRequestReference
AsPullRequest(x) ==
    [state         |-> x.state,
     merged_at     |-> x.merged_at,
     closed_at     |-> Undefined,
     created_at    |-> "2023-01-01",
     number        |-> x.number,
     title         |-> x.title,
     additions     |-> 0,
     deletions     |-> 0,
     author_avatar |-> x.author_avatar]

\* IssueReferencePullRequest renders the pull request with the merge icon
ShownAsMerged(p) ==
    \E i \in DOMAIN IssueReferencePullRequest("polar", RepoName, <<p>>) :
        IssueReferencePullRequest("polar", RepoName, <<p>>)[i].kind = "GitMergeIcon"

\* C23: a rendered external pull request shows exactly one icon: the merge
\* icon if IssueReferencePullRequest shows the same pull request as merged
\* (state closed and merged_at present), the open pull request icon if not.
C23_RenderersAgreeOnMerged ==
    (RendersPayload("external_github_pull_request") /\ refPc = "done") =>
        ElementsOf({"GitMergeIcon", "GitPullRequestIcon", "GitPullRequestClosedIcon"}) =
            IF ShownAsMerged(AsPullRequest(Payload))
            THEN <<Element("GitMergeIcon", <<>>, <<>>)>>
            ELSE <<Element("GitPullRequestIcon", <<>>, <<>>)>>

(***************************************************************************)
(* PaymentMethodSettings (team settings page): the 'Invoice settings and   *)
(* receipts' button and the billing email form.  Both handlers are         *)
(* asynchronous; each call is followed on its own.  The button and form    *)
(* components are not part of the source, so a click or a submit is taken  *)
(* to be possible whenever the page is shown.                              *)
(***************************************************************************)
\* the portal button is clicked at most MaxPortalClicks times
MaxPortalClicks == 2

\* the form is submitted at most MaxSubmits times
MaxSubmits == 3

\* onGotoStripeCustomerPortal up to its await: lines 94-99
GotoStripeCustomerPortal ==
    /\ Len(portalHandlers) < MaxPortalClicks
    /\ stripePortalLoading' = TRUE
    /\ portalHandlers' = Append(portalHandlers, "awaiting")
    /\ UNCHANGED <<locationHref, showDidSave, saves, saveTimers>>
    /\ UNCHANGED <<dsVars, rVars, refVars, artVars, sgnVars, lfVars>>

\* createStripeCustomerPortal resolves with a portal: lines 100-104
PortalResolves ==
    /\ \E i \in DOMAIN portalHandlers :
           /\ portalHandlers[i] = "awaiting"
           /\ portalHandlers' = [portalHandlers EXCEPT ![i] = "portal"]
    /\ locationHref' = "portal.url"
    /\ stripePortalLoading' = FALSE
    /\ UNCHANGED <<showDidSave, saves, saveTimers>>
    /\ UNCHANGED <<dsVars, rVars, refVars, artVars, sgnVars, lfVars>>

\* createStripeCustomerPortal resolves without a portal: lines 100, 104
PortalResolvesEmpty ==
    /\ \E i \in DOMAIN portalHandlers :
           /\ portalHandlers[i] = "awaiting"
           /\ portalHandlers' = [portalHandlers EXCEPT ![i] = "none"]
    /\ stripePortalLoading' = FALSE
    /\ UNCHANGED <<locationHref, showDidSave, saves, saveTimers>>
    /\ UNCHANGED <<dsVars, rVars, refVars, artVars, sgnVars, lfVars>>

\* createStripeCustomerPortal rejects: the await throws and, with no try
\* around it, the rest of the handler is not run
PortalRejects ==
    /\ \E i \in DOMAIN portalHandlers :
           /\ portalHandlers[i] = "awaiting"
           /\ portalHandlers' = [portalHandlers EXCEPT ![i] = "rejected"]
    /\ UNCHANGED <<stripePortalLoading, locationHref, showDidSave, saves, saveTimers>>
    /\ UNCHANGED <<dsVars, rVars, refVars, artVars, sgnVars, lfVars>>

\* onSubmit up to its await: lines 119-126
Submit ==
    /\ Len(saves) < MaxSubmits
    /\ saves' = Append(saves, "awaiting")
    /\ UNCHANGED <<stripePortalLoading, portalHandlers, locationHref, showDidSave,
                   saveTimers>>
    /\ UNCHANGED <<dsVars, rVars, refVars, artVars, sgnVars, lfVars>>

\* the organization update of the i-th call resolves: lines 127-131, the
\* indicator is shown and the call's hide timer is set
UpdateSucceeds ==
    /\ \E i \in DOMAIN saves :
           /\ saves[i] = "awaiting"
           /\ saves' = [saves EXCEPT ![i] = "saved"]
           /\ saveTimers' = Append(saveTimers, i)
    /\ showDidSave' = TRUE
    /\ UNCHANGED <<stripePortalLoading, portalHandlers, locationHref>>
    /\ UNCHANGED <<dsVars, rVars, refVars, artVars, sgnVars, lfVars>>

\* the organization update of a call rejects: the await throws, nothing of
\* lines 127-131 is run
UpdateFails ==
    /\ \E i \in DOMAIN saves :
           /\ saves[i] = "awaiting"
           /\ saves' = [saves EXCEPT ![i] = "failed"]
    /\ UNCHANGED <<stripePortalLoading, portalHandlers, locationHref, showDidSave,
                   saveTimers>>
    /\ UNCHANGED <<dsVars, rVars, refVars, artVars, sgnVars, lfVars>>

\* lines 129-131: the hide timer set first fires (all timers have the same
\* delay, so they fire in the order they were set)
HideTimerFires ==
    /\ saveTimers # <<>>
    /\ showDidSave' = FALSE
    /\ saves' = [saves EXCEPT ![Head(saveTimers)] = "timer fired"]
    /\ saveTimers' = Tail(saveTimers)
    /\ UNCHANGED <<stripePortalLoading, portalHandlers, locationHref>>
    /\ UNCHANGED <<dsVars, rVars, refVars, artVars, sgnVars, lfVars>>

PaymentInit ==
    /\ stripePortalLoading = FALSE
    /\ portalHandlers = <<>>
    /\ locationHref = "/settings"
    /\ showDidSave = FALSE
    /\ saves = <<>>
    /\ saveTimers = <<>>
    \* no DiffStat render is under way
    /\ propsAdditions = Undefined
    /\ propsDeletions = Undefined
    /\ additionBoxes = 0
    /\ deletionBoxes = 0
    /\ emptyBoxes = 0
    /\ marks = <<>>
    /\ dsPc = "idle"
    \* no markdown render is under way
    /\ component = "none"
    /\ propShow = Undefined
    /\ body = <<>>
    /\ strictShow = FALSE
    /\ cutoff = 0
    /\ pos = 1
    /\ output = <<>>
    /\ rPc = "idle"
    \* no issue reference is being rendered
    /\ refOrgName = "polar"
    /\ reference = <<>>
    /\ refView = <<>>
    /\ refPc = "idle"
    \* no article mutation has been started
    /\ artStale = {}
    /\ artMutation = [status |-> "idle", kind |-> "none", org |-> "none", id |-> "none"]
    /\ artCount = 0
    \* the subscription success page is not shown
    /\ email = <<>>
    /\ emailSigninLoading = FALSE
    /\ sgnRequests = 0
    /\ sgnPushes = <<>>
    /\ sgnHandlers = <<>>
    \* no post is mounted
    /\ publishedAt = <<>>
    /\ now = 0
    /\ publishedDateText = <<>>
    /\ lfRenders = 0

PaymentNext ==
    \/ GotoStripeCustomerPortal
    \/ PortalResolves
    \/ PortalResolvesEmpty
    \/ PortalRejects
    \/ Submit
    \/ UpdateSucceeds
    \/ UpdateFails
    \/ HideTimerFires

SpecPayment == PaymentInit /\ [][PaymentNext]_vars

(***************************************************************************)
(* PaymentMethodSettings: properties                                       *)
(***************************************************************************)
\* the number of calls of onGotoStripeCustomerPortal whose request is
\* outstanding
PortalsAwaiting ==
    Cardinality({i \in DOMAIN portalHandlers : portalHandlers[i] = "awaiting"})

\* C21: the step in which the customer-portal request of a call completes,
\* with a portal, without one or by rejecting, leaves stripePortalLoading
\* false.
C21_PortalLoadingReset ==
    [][PortalsAwaiting' < PortalsAwaiting => ~stripePortalLoading']_vars

\* C22: 'Saved!' is shown only if an organization update has succeeded, and
\* it is shown for as long as the hide timer of any successful save is
\* still to fire (so no earlier save's timer hides a later save's
\* indicator).
C22_SavedShownUntilOwnTimer ==
    /\ showDidSave => \E i \in DOMAIN saves : saves[i] \in {"saved", "timer fired"}
    /\ \A i \in DOMAIN saves : saves[i] = "saved" => showDidSave

=============================================================================
